---- MODULE Spec2Model ----
(***************************************************************************)
(* Natural-language-to-SQL agent: table relevance selection, schema        *)
(* context, the three-stage crew pipeline and the SQL extraction of        *)
(* src/src/sql_agent.py, src/src/database_manager.py, src/src/ollama_llm.py*)
(*                                                                         *)
(* Texts are sequences of lexemes (a keyword, a word, a blank, a newline,  *)
(* a semicolon, a run of three backticks); the text they stand for is the  *)
(* concatenation of the lexemes.  Table names and query texts are          *)
(* sequences of characters.                                                *)
(***************************************************************************)
EXTENDS Integers, Sequences, FiniteSets, TLC

VARIABLES
    engine,                 \* DatabaseManager.engine: "None" or "Engine"
    storeUp,                \* the store answers introspection requests
    store,                  \* the store's tables, in enumeration order
    pc,                     \* position of generate_sql
    natural_language_query, \* the request text
    relevant_tables,        \* result of get_relevant_tables
    schema,                 \* what get_database_schema gave _create_schema_context
    schema_context,         \* result of _create_schema_context (lines)
    trace,                  \* stages run by crew.kickoff(), in order
    calls,                  \* model invocations made for the request
    failures,               \* stages whose model call failed
    outputs,                \* text returned by each model call, in order
    result,                 \* the dictionary generate_sql returned
    text,                   \* argument of _extract_sql_from_result
    extracted,              \* value _extract_sql_from_result returned
    parts,                  \* how text was put together, NoParts for a free text
    all_tables,             \* inspector.get_table_names() seen by the selector
    query,                  \* argument of get_relevant_tables
    selected,               \* value get_relevant_tables returned
    connection,             \* "never", "failed", "live", "closed": the last of connect()/close()
    connect_return,         \* what the last connect() returned to its caller
    call_errors,            \* underlying error of each model call, "" when none
    schema_log,             \* direct calls of get_database_schema, in order
    sql_query,              \* argument of execute_sql
    sent,                   \* statements the store received from execute_query
    exec_result,            \* the dictionary execute_sql returned
    sample_queries,         \* SQLAgent.sample_queries
    examples_context,       \* value _create_examples_context returned (lines)
    ollamaUp,               \* the model service answers and lists the model
    sql_agent,              \* st.session_state.sql_agent: NoAgent or the agent's references
    heap,                   \* the OllamaLLM objects, by reference
    db_connected,           \* st.session_state.db_connected
    ollama_connected,       \* st.session_state.ollama_connected
    temperature,            \* st.session_state.temperature (select box)
    max_tokens,             \* st.session_state.max_tokens (select box)
    natural_query,          \* st.session_state.natural_query (text area)
    query_history,          \* st.session_state.query_history
    generated_sql,          \* st.session_state.generated_sql, Absent if not set
    query_result,           \* st.session_state.query_result
    last_call,              \* the last invocation of generate_sql by the dashboard
    generations,            \* invocations of generate_sql by the dashboard
    successes               \* of these, the ones that returned success=true

vars == <<engine, storeUp, store, pc, natural_language_query, relevant_tables,
          schema, schema_context, trace, calls, failures, outputs, result,
          text, extracted, parts, all_tables, query, selected,
          connection, connect_return, call_errors, schema_log, sql_query,
          sent, exec_result, sample_queries, examples_context, ollamaUp,
          sql_agent, heap, db_connected, ollama_connected, temperature,
          max_tokens, natural_query, query_history, generated_sql,
          query_result, last_call, generations, successes>>

pipelineVars == <<engine, storeUp, store, pc, natural_language_query,
                  relevant_tables, schema, schema_context, trace, calls,
                  failures, outputs, result, connection, connect_return,
                  call_errors>>
managerVars == <<connection, connect_return>>
schemaVars == <<schema_log>>
execVars == <<sql_query, sent, exec_result>>
exampleVars == <<sample_queries, examples_context>>
sessionVars == <<sql_agent, db_connected, ollama_connected, temperature,
                 max_tokens, natural_query, query_history, generated_sql,
                 query_result>>
appVars == <<ollamaUp, heap, sessionVars, last_call, generations, successes>>
extractVars == <<text, extracted, parts>>
selectVars == <<all_tables, query, selected>>

----------------------------------------------------------------------------
(* Bounds *)

MaxLen == 5        \* longest text enumerated lexeme by lexeme
MaxBody == 2       \* lexemes between a statement's keyword and its semicolon
MaxTables == 6     \* most tables in the selector's store
MaxQueryLen == 2   \* longest query text of the selector, in characters
MaxExamples == 6   \* most example pairs in sample_queries
MaxRows == 2       \* most rows the store returns for a statement
MaxGenerations == 2 \* most presses of the generate button that reach generate_sql

----------------------------------------------------------------------------
(* Helpers *)

Min(S) == CHOOSE x \in S : \A y \in S : x <= y
Max(S) == CHOOSE x \in S : \A y \in S : x >= y

SeqsUpTo(S, n) == UNION { [1..k -> S] : k \in 0..n }

\* Python's None
None == << "None" >>

\* "Not started yet" marker of the model's output variables
Unset == << "Unset" >>

\* get_database_schema has not been called for the request
NoSchema == [unread |-> TRUE]

\* generate_sql has not returned anything yet
NoResult == [pending |-> TRUE]

\* _create_examples_context has not been called yet
NotRendered == << [kind |-> "unset"] >>

\* connect() has not been called yet
NoReturn == [uncalled |-> TRUE]

----------------------------------------------------------------------------
(* Lexemes and the regular expressions of _extract_sql_from_result *)

\* a run of three backtick characters
Fence == "FENCE"

Keywords == {"SELECT", "INSERT", "UPDATE", "DELETE"}

\* (?i): letter case is ignored when a keyword is matched
Upper(t) ==
    CASE t = "select" -> "SELECT"
      [] t = "delete" -> "DELETE"
      [] OTHER -> t

IsKeyword(t) == Upper(t) \in Keywords

\* \s
IsSpace(t) == t \in {" ", "\n"}

\* '.' without the DOTALL flag matches anything but a newline
IsDot(t) == t # "\n"

\* (?m)^ : at the start of the text or right after a newline
LineStart(s, i) == i = 1 \/ s[i - 1] = "\n"

\* result.replace('\n', ' ')
Flatten(s) == [i \in DOMAIN s |-> IF s[i] = "\n" THEN " " ELSE s[i]]

\* str.strip()
Strip(s) ==
    LET keep == { i \in DOMAIN s : ~IsSpace(s[i]) }
    IN  IF keep = {} THEN << >> ELSE SubSeq(s, Min(keep), Max(keep))

\* The positions at which (SELECT|INSERT|UPDATE|DELETE)\s+.*; can end when it
\* starts at i: after the keyword a non-empty run of blanks, then anything but
\* a newline, then a semicolon.
MatchEnds(s, i) ==
    IF ~(i \in DOMAIN s /\ IsKeyword(s[i])) THEN {}
    ELSE { j \in (i + 2)..Len(s) :
             /\ s[j] = ";"
             /\ \E p \in (i + 1)..(j - 1) :
                  /\ \A k \in (i + 1)..p : IsSpace(s[k])
                  /\ \A k \in (p + 1)..(j - 1) : IsDot(s[k]) }

\* The mutation of PickEnd: a greedy '.*' runs to the last semicolon.
PickEndGreedy(ends) == Max(ends)

\* '.*?' is lazy: of the possible ends the match takes the first.
PickEnd(ends) == Min(ends)

\* re.search(pattern, s): the leftmost match, None without one.  anchored
\* tells whether the pattern starts with ^ (under the MULTILINE flag).
Search(s, anchored) ==
    LET starts == { i \in DOMAIN s :
                      /\ anchored => LineStart(s, i)
                      /\ MatchEnds(s, i) # {} }
    IN  IF starts = {} THEN None
        ELSE LET i == Min(starts)
             IN  SubSeq(s, i, PickEnd(MatchEnds(s, i)))

\* re.findall of six backtick characters in result: the non-overlapping runs of six backticks,
\* left to right; each match is the six backticks themselves.
RECURSIVE code_blocks(_)
code_blocks(s) ==
    IF Len(s) < 2 THEN << >>
    ELSE IF s[1] = Fence /\ s[2] = Fence
         THEN << SubSeq(s, 1, 2) >> \o code_blocks(SubSeq(s, 3, Len(s)))
         ELSE code_blocks(Tail(s))

\* The loop over code_blocks: the first block in which the anchored findall
\* and then the unanchored search both match gives the statement.
RECURSIVE BlockPass(_)
BlockPass(blocks) ==
    IF blocks = << >> THEN None
    ELSE LET block == Head(blocks)
         IN  IF Search(block, TRUE) # None /\ Search(block, FALSE) # None
             THEN Strip(Search(block, FALSE))
             ELSE BlockPass(Tail(blocks))

\* The mutation of NotFound: the raw text is handed back when nothing matched.
NotFoundRaw(s) == Strip(s)

\* Step 3: nothing matched
NotFound(s) == None

_extract_sql_from_result(s) ==
    LET inBlock == BlockPass(code_blocks(s))
    IN  IF inBlock # None THEN inBlock
        ELSE LET match == Search(Flatten(s), FALSE)
             IN  IF match # None THEN Strip(match) ELSE NotFound(s)

----------------------------------------------------------------------------
(* get_relevant_tables *)

\* all_tables[:5]
FallbackLimit == 5

\* str.lower() on one character
Lower(c) ==
    CASE c = "A" -> "a"
      [] c = "B" -> "b"
      [] c = "U" -> "u"
      [] OTHER -> c

LowerStr(s) == [i \in DOMAIN s |-> Lower(s[i])]

\* Python's  needle in hay  on strings
Contains(hay, needle) ==
    \E i \in 0..(Len(hay) - Len(needle)) :
        SubSeq(hay, i + 1, i + Len(needle)) = needle

\* The mutation of IsMatch: the comparison forgets to lower-case.
IsMatchCaseSensitive(table, q) == Contains(q, table)

\* table.lower() in query_lower
IsMatch(table, q) == Contains(LowerStr(q), LowerStr(table))

\* The mutation of Fallback: the limit of five is dropped.
FallbackAll(tables) == tables

\* all_tables[:5]
Fallback(tables) == SubSeq(tables, 1, Min({FallbackLimit, Len(tables)}))

\* The body of get_relevant_tables once the engine check has passed and the
\* inspector has listed tables.
get_relevant_tables(q, tables) ==
    LET matched == SelectSeq(tables, LAMBDA t : IsMatch(t, q))
    IN  IF matched = << >> THEN Fallback(tables) ELSE matched

----------------------------------------------------------------------------
(* Inputs of the two pure functions *)

Alphabet == {"SELECT", "delete", "x", " ", "\n", ";", Fence}

ShortTexts == SeqsUpTo(Alphabet, MaxLen)

\* What may stand between a statement's keyword and its semicolon
Bodies ==
    { b \in SeqsUpTo({"x", " ", "\n", "*"}, MaxBody) : b # << >> /\ b[1] # "x" }

\* Single statements: a keyword, a body without semicolon, one semicolon
Statements ==
    { << k >> \o b \o << ";" >> : k \in {"SELECT", "delete"}, b \in Bodies }

\* Prose without keyword
PlainProse ==
    { << >>, << "x" >>, << "x", " ", "x", "\n" >>, << "x", ";", " ", "x", "\n" >> }

\* Prose in which statement-shaped text occurs
StatementProse ==
    { << "delete", " ", "x", ";", "\n" >>,
      << "x", " ", "SELECT", " ", "*", ";", "\n" >> }

\* The line that opens a fenced block, with or without a language tag
Openings == { << Fence, "\n" >>, << Fence, "x", "\n" >> }

Closing == << "\n", Fence >>

FencedText(p) == p.pre \o p.open \o p.stmt \o Closing \o p.post

\* Keyword-free prose after the closing fence
Endings == { << >>, << "\n", "x", " ", "x" >>, << "\n", "x", ";" >> }

\* A text that was not put together from parts
NoParts == [free |-> TRUE]

FencedParts ==
    [ pre : PlainProse \cup StatementProse, open : Openings,
      stmt : Statements, post : Endings ]

CharAlphabet == {"a", "A", "b"}

Queries == SeqsUpTo(CharAlphabet, MaxQueryLen)

TablePool ==
    { << "a" >>, << "A" >>, << "A", "b" >>, << "c" >>, << "d" >>, << "e" >>,
      << "f" >> }

\* Table lists without repetition, as an inspector reports them
TableLists ==
    { l \in SeqsUpTo(TablePool, MaxTables) :
        \A i, j \in DOMAIN l : i # j => l[i] # l[j] }

----------------------------------------------------------------------------
(* The dashboard's session state and the model objects of an agent *)

\* st.session_state.sql_agent = None
NoAgent == [none |-> TRUE]

\* 'generated_sql' not in st.session_state
Absent == << "Absent" >>

\* generate_sql has not been invoked by the dashboard
NoCall == [uninvoked |-> TRUE]

\* No OllamaLLM object exists
NoHeap == [ r \in {} |-> NoCall ]

\* Choices of the two select boxes (two of each list) and their preselection
TemperatureOptions == { "0.3", "0.7" }
MaxTokensOptions == { 1024, 2048 }
PreselectedTemperature == "0.7"
PreselectedMaxTokens == 2048

\* Field defaults of OllamaLLM
DefaultTemperature == "0.7"
DefaultMaxTokens == 2048

\* The "ollama" section of the configuration file, read when an agent is built
Configs ==
    { [base_url |-> "http://localhost:11434", model |-> "ollama/llama3.2:latest"],
      [base_url |-> "http://localhost:11434", model |-> "tinyllama:1.1b-chat"] }

\* OllamaManager.__init__: OllamaLLM(base_url=self.base_url, model=self.model)
ManagerLLM(cfg) ==
    [ base_url |-> cfg.base_url, model |-> cfg.model,
      temperature |-> DefaultTemperature, max_tokens |-> DefaultMaxTokens ]

\* _create_agents: OllamaLLM(provider="ollama", model="ollama/llama3.2:latest",
\* base_url="http://localhost:11434")
AgentsLLM ==
    [ base_url |-> "http://localhost:11434", model |-> "ollama/llama3.2:latest",
      temperature |-> DefaultTemperature, max_tokens |-> DefaultMaxTokens ]

\* SQLAgent.__init__: self.llm is first the manager's object; _create_agents
\* then assigns a new object to self.llm and gives that one to the agents.
SQLAgent(cfg) ==
    [ config |-> cfg,
      ollama_manager_llm |-> "llm1", llm |-> "llm2", agents_llm |-> "llm2" ]

HeapOf(cfg) ==
    [ r \in {"llm1", "llm2"} |-> IF r = "llm1" THEN ManagerLLM(cfg) ELSE AgentsLLM ]

\* Text-area contents: empty, blank, a query
QueryTexts == { << >>, << " " >>, << "U" >> }

----------------------------------------------------------------------------
(* Variables a specification does not use *)

PipelineIdle ==
    /\ engine = "None"
    /\ storeUp = TRUE
    /\ store = << >>
    /\ pc = "Idle"
    /\ natural_language_query = << >>
    /\ relevant_tables = << >>
    /\ schema = NoSchema
    /\ schema_context = << >>
    /\ trace = << >>
    /\ calls = 0
    /\ failures = {}
    /\ outputs = << >>
    /\ result = NoResult
    /\ connection = "never"
    /\ connect_return = NoReturn
    /\ call_errors = << >>

SchemaIdle == schema_log = << >>

ExecIdle ==
    /\ sql_query = << >>
    /\ sent = << >>
    /\ exec_result = NoResult

ExamplesIdle ==
    /\ sample_queries = << >>
    /\ examples_context = NotRendered

\* initialize_session_state, the widgets' preselection, no agent built yet
AppIdle ==
    /\ ollamaUp = TRUE
    /\ sql_agent = NoAgent
    /\ heap = NoHeap
    /\ db_connected = FALSE
    /\ ollama_connected = FALSE
    /\ temperature = PreselectedTemperature
    /\ max_tokens = PreselectedMaxTokens
    /\ natural_query = << >>
    /\ query_history = << >>
    /\ generated_sql = Absent
    /\ query_result = NoResult
    /\ last_call = NoCall
    /\ generations = 0
    /\ successes = 0

ExtractIdle ==
    /\ text = << >>
    /\ extracted = Unset
    /\ parts = NoParts

SelectIdle ==
    /\ all_tables = << >>
    /\ query = << >>
    /\ selected = Unset

----------------------------------------------------------------------------
(* SpecExtract: _extract_sql_from_result applied to one text *)

InitExtract ==
    /\ PipelineIdle
    /\ SelectIdle
    /\ SchemaIdle
    /\ ExecIdle
    /\ AppIdle
    /\ ExamplesIdle
    /\ extracted = Unset
    /\ \/ /\ text \in ShortTexts
          /\ parts = NoParts
       \/ /\ parts \in FencedParts
          /\ text = FencedText(parts)

Extract ==
    /\ extracted = Unset
    /\ extracted' = _extract_sql_from_result(text)
    /\ UNCHANGED <<text, parts>>
    /\ UNCHANGED pipelineVars
    /\ UNCHANGED <<schemaVars, execVars, exampleVars>>
    /\ UNCHANGED appVars
    /\ UNCHANGED selectVars

NextExtract == Extract

SpecExtract == InitExtract /\ [][NextExtract]_vars

----------------------------------------------------------------------------
(* SpecSelect: get_relevant_tables applied to one query and one table list *)

InitSelect ==
    /\ PipelineIdle
    /\ ExtractIdle
    /\ SchemaIdle
    /\ ExecIdle
    /\ AppIdle
    /\ ExamplesIdle
    /\ all_tables \in TableLists
    /\ query \in Queries
    /\ selected = Unset

Select ==
    /\ selected = Unset
    /\ selected' = get_relevant_tables(query, all_tables)
    /\ UNCHANGED <<all_tables, query>>
    /\ UNCHANGED pipelineVars
    /\ UNCHANGED <<schemaVars, execVars, exampleVars>>
    /\ UNCHANGED appVars
    /\ UNCHANGED extractVars

NextSelect == Select

SpecSelect == InitSelect /\ [][NextSelect]_vars

----------------------------------------------------------------------------
(* The store's catalogue, as the inspector reports it for each table *)

Users == << "u" >>
Orders == << "o" >>

PipelineTables == {Users, Orders}

\* What the inspector reports for a table: get_columns, get_pk_constraint
\* (an empty column list when the table has no primary key), get_foreign_keys
Inspector(t) ==
    IF t = Users
    THEN [ columns |-> << [name |-> "id", type |-> "INTEGER",
                           nullable |-> FALSE, default |-> << "nextval" >>],
                          [name |-> "name", type |-> "TEXT",
                           nullable |-> TRUE, default |-> << >>] >>,
           pk_constraint |-> [constrained_columns |-> << "id" >>],
           foreign_keys |-> << >> ]
    ELSE [ columns |-> << [name |-> "user_id", type |-> "INTEGER",
                           nullable |-> TRUE, default |-> << >>] >>,
           pk_constraint |-> [constrained_columns |-> << >>],
           foreign_keys |-> << [constrained_columns |-> << "user_id" >>,
                                referred_table |-> Users,
                                referred_columns |-> << "id" >>] >> ]

\* The mutation of TableInfo: a table without primary key gets None.
TableInfoNullPk(t) ==
    [ name |-> t,
      columns |-> Inspector(t).columns,
      primary_keys |->
          IF Inspector(t).pk_constraint.constrained_columns # << >>
          THEN Inspector(t).pk_constraint.constrained_columns
          ELSE None,
      foreign_keys |-> Inspector(t).foreign_keys ]

\* table_info: primary_keys starts as [] and is replaced only by a non-empty
\* list of constrained columns
TableInfo(t) ==
    [ name |-> t,
      columns |-> Inspector(t).columns,
      primary_keys |->
          IF Inspector(t).pk_constraint.constrained_columns # << >>
          THEN Inspector(t).pk_constraint.constrained_columns
          ELSE << >>,
      foreign_keys |-> Inspector(t).foreign_keys ]

NotConnected == "Database not connected. Call connect() first."

\* The mutation of get_database_schema: the schema of the previous successful
\* call is kept and returned again.
get_database_schema_cached(eng, up, tables) ==
    IF eng = "None" THEN [raised |-> NotConnected]
    ELSE IF ~up THEN [raised |-> "StoreError"]
    ELSE IF schema_log # << >>
            /\ "tables" \in DOMAIN schema_log[Len(schema_log)].returned
    THEN schema_log[Len(schema_log)].returned
    ELSE [ tables |-> [ t \in { tables[i] : i \in DOMAIN tables } |-> TableInfo(t) ],
           total_tables |-> Cardinality({ tables[i] : i \in DOMAIN tables }) ]

\* get_database_schema: the not-connected error without an engine, the
\* store's error when the inspector cannot reach it, else one entry per table.
get_database_schema(eng, up, tables) ==
    IF eng = "None" THEN [raised |-> NotConnected]
    ELSE IF ~up THEN [raised |-> "StoreError"]
    ELSE [ tables |-> [ t \in { tables[i] : i \in DOMAIN tables } |-> TableInfo(t) ],
           total_tables |-> Cardinality({ tables[i] : i \in DOMAIN tables }) ]

----------------------------------------------------------------------------
(* _create_schema_context: the context as a sequence of lines *)

ColumnLine(col) ==
    [ kind |-> "Column", name |-> col.name, type |-> col.type,
      nullable |-> IF col.nullable THEN "NULL" ELSE "NOT NULL",
      default |-> IF col.default # << >>
                  THEN << " DEFAULT " >> \o col.default ELSE << >> ]

\* The mutation of TableBlock: the block loses its header line.
TableBlockNoHeader(info) ==
    << [kind |-> "Columns:"] >>
    \o [ i \in DOMAIN info.columns |-> ColumnLine(info.columns[i]) ]
    \o << [kind |-> ""] >>

\* The mutation of TableBlock: the key lines are written for every table.
TableBlockAlwaysKeys(info) ==
    << [kind |-> "Table:", name |-> info.name], [kind |-> "Columns:"] >>
    \o [ i \in DOMAIN info.columns |-> ColumnLine(info.columns[i]) ]
    \o << [kind |-> "Primary Keys:", cols |-> info.primary_keys],
          [kind |-> "Foreign Keys:", fks |-> info.foreign_keys],
          [kind |-> ""] >>

\* The lines appended for one table
TableBlock(info) ==
    << [kind |-> "Table:", name |-> info.name], [kind |-> "Columns:"] >>
    \o [ i \in DOMAIN info.columns |-> ColumnLine(info.columns[i]) ]
    \o (IF info.primary_keys # << >>
        THEN << [kind |-> "Primary Keys:", cols |-> info.primary_keys] >>
        ELSE << >>)
    \o (IF info.foreign_keys # << >>
        THEN << [kind |-> "Foreign Keys:", fks |-> info.foreign_keys] >>
        ELSE << >>)
    \o << [kind |-> ""] >>

\* The loop over relevant_tables: a table the schema does not hold is skipped
RECURSIVE ContextParts(_, _)
ContextParts(tables, sch) ==
    IF tables = << >> THEN << >>
    ELSE (IF Head(tables) \in DOMAIN sch.tables
          THEN TableBlock(sch.tables[Head(tables)])
          ELSE << >>)
         \o ContextParts(Tail(tables), sch)

\* The except branch: the error becomes the context
ErrorMarker(msg) == << [kind |-> "Error: Could not retrieve schema information", msg |-> msg] >>

_create_schema_context(tables, sch) ==
    IF "raised" \in DOMAIN sch THEN ErrorMarker(sch.raised)
    ELSE ContextParts(tables, sch)

----------------------------------------------------------------------------
(* OllamaLLM._call and the crew *)

\* tasks=[analysis_task, schema_task, generation_task], Process.sequential
Tasks == << "Analysis", "SchemaInsight", "Generation" >>

Stages == { Tasks[i] : i \in DOMAIN Tasks }

StageIndex(stage) == CHOOSE i \in DOMAIN Tasks : Tasks[i] = stage

\* What can happen to the HTTP request of one model call
CallOutcomes == {"ok", "no_response", "bad_status", "transport", "bad_json"}

\* Completion texts of the model: one with a statement, one without.  The
\* model is free to write any text, the sentence _call uses for a non-200
\* answer included.
Completions ==
    { << "x", "\n", "SELECT", " ", "x", ";" >>,
      << "Error:", " ", "Unable" >> }

\* What went wrong in a model call: the body of a non-200 answer, the text
\* of the transport exception, the text of any other exception; "" when
\* nothing raised.  A 200 answer without a "response" key raises nothing.
Underlying(outcome) ==
    CASE outcome = "ok" -> ""
      [] outcome = "no_response" -> ""
      [] outcome = "bad_status" -> "response.text"
      [] outcome = "transport" -> "RequestException"
      [] outcome = "bad_json" -> "Exception"

\* _call: the completion on status 200, the empty default when the JSON has
\* no "response" key, and an "Error: ..." text, returned not raised, on a
\* non-200 status, a transport failure or any other exception.
_call(outcome, completion) ==
    CASE outcome = "ok" -> completion
      [] outcome = "no_response" -> << >>
      [] outcome = "bad_status" -> << "Error:", " ", "Unable" >>
      [] outcome = "transport" -> << "Error:", " ", "Failed" >>
      [] outcome = "bad_json" -> << "Error:", " ", Underlying(outcome) >>

\* The mutation of StageAfter: a stage whose model call failed is run again.
StageAfterRetry(stage, outcome) ==
    IF outcome # "ok" THEN stage
    ELSE IF StageIndex(stage) < Len(Tasks) THEN Tasks[StageIndex(stage) + 1]
    ELSE "Done"

\* The sequential process: the next task of the list, whatever the call gave
StageAfter(stage, outcome) ==
    IF StageIndex(stage) < Len(Tasks) THEN Tasks[StageIndex(stage) + 1]
    ELSE "Done"

----------------------------------------------------------------------------
(* generate_sql and its environment *)

PipelineQueries == { << "U" >>, << "b" >> }

Failure(msg, q) ==
    [ success |-> FALSE, error |-> msg, natural_language_query |-> q ]

Init ==
    /\ PipelineIdle
    /\ ExtractIdle
    /\ SelectIdle
    /\ SchemaIdle
    /\ ExecIdle
    /\ AppIdle
    /\ ExamplesIdle

\* DatabaseManager.connect, with a configuration that holds the database
\* keys: the engine is created before the connection is tested, and stays set
\* whether or not the test succeeds.  The caller gets True or False; the
\* error of a failed test goes to the log only.
Connect ==
    /\ pc = "Idle"
    /\ engine' = "Engine"
    /\ connection' = IF storeUp THEN "live" ELSE "failed"
    /\ connect_return' = [value |-> storeUp]
    /\ UNCHANGED <<storeUp, store, pc, natural_language_query, relevant_tables,
                   schema, schema_context, trace, calls, failures, outputs,
                   result, call_errors>>
    /\ UNCHANGED <<extractVars, query, selected, all_tables>>
    /\ UNCHANGED <<schemaVars, execVars, exampleVars>>
    /\ UNCHANGED appVars

\* The store becomes unreachable, or reachable again
StoreToggle ==
    /\ storeUp' = ~storeUp
    /\ UNCHANGED <<engine, store, pc, natural_language_query, relevant_tables,
                   schema, schema_context, trace, calls, failures, outputs,
                   result, call_errors, managerVars>>
    /\ UNCHANGED <<extractVars, query, selected, all_tables>>
    /\ UNCHANGED <<schemaVars, execVars, exampleVars>>
    /\ UNCHANGED appVars

\* Another client of the store creates a table
CreateTable(t) ==
    /\ \A i \in DOMAIN store : store[i] # t
    /\ store' = Append(store, t)
    /\ UNCHANGED <<engine, storeUp, pc, natural_language_query, relevant_tables,
                   schema, schema_context, trace, calls, failures, outputs,
                   result, call_errors, managerVars>>
    /\ UNCHANGED <<extractVars, query, selected, all_tables>>
    /\ UNCHANGED <<schemaVars, execVars, exampleVars>>
    /\ UNCHANGED appVars

\* Another client of the store drops a table
DropTable(i) ==
    /\ i \in DOMAIN store
    /\ store' = SubSeq(store, 1, i - 1) \o SubSeq(store, i + 1, Len(store))
    /\ UNCHANGED <<engine, storeUp, pc, natural_language_query, relevant_tables,
                   schema, schema_context, trace, calls, failures, outputs,
                   result, call_errors, managerVars>>
    /\ UNCHANGED <<extractVars, query, selected, all_tables>>
    /\ UNCHANGED <<schemaVars, execVars, exampleVars>>
    /\ UNCHANGED appVars

\* generate_sql up to the return of get_relevant_tables: without an engine,
\* or when the inspector fails, the exception ends the request.
GenerateSql(q) ==
    /\ pc = "Idle"
    /\ natural_language_query' = q
    /\ trace' = << >>
    /\ calls' = 0
    /\ failures' = {}
    /\ outputs' = << >>
    /\ call_errors' = << >>
    /\ schema' = NoSchema
    /\ schema_context' = << >>
    /\ IF engine = "None" \/ ~storeUp
       THEN /\ result' = Failure(IF engine = "None" THEN NotConnected
                                 ELSE "StoreError", q)
            /\ pc' = "Failed"
            /\ relevant_tables' = << >>
            /\ UNCHANGED all_tables
       ELSE /\ all_tables' = store
            /\ relevant_tables' = get_relevant_tables(q, store)
            /\ result' = NoResult
            /\ pc' = "Context"
    /\ UNCHANGED <<engine, storeUp, store, managerVars>>
    /\ UNCHANGED <<extractVars, query, selected>>
    /\ UNCHANGED <<schemaVars, execVars, exampleVars>>
    /\ UNCHANGED appVars

\* schema_context = self._create_schema_context(relevant_tables)
CreateSchemaContext ==
    /\ pc = "Context"
    /\ schema' = get_database_schema(engine, storeUp, store)
    /\ schema_context' = _create_schema_context(relevant_tables, schema')
    /\ pc' = Tasks[1]
    /\ UNCHANGED <<engine, storeUp, store, natural_language_query,
                   relevant_tables, trace, calls, failures, outputs, result,
                   call_errors, managerVars>>
    /\ UNCHANGED <<extractVars, query, selected, all_tables>>
    /\ UNCHANGED <<schemaVars, execVars, exampleVars>>
    /\ UNCHANGED appVars

\* One task of crew.kickoff(): one model call.  After the last task kickoff
\* returns and generate_sql builds its result from the raw output.
RunStage(outcome, completion, rawPresent) ==
    /\ pc \in Stages
    /\ LET out == _call(outcome, completion)
           next == StageAfter(pc, outcome)
           sql_str == IF rawPresent THEN out ELSE None
       IN  /\ trace' = Append(trace, pc)
           /\ calls' = calls + 1
           /\ outputs' = Append(outputs, out)
           /\ call_errors' = Append(call_errors, Underlying(outcome))
           /\ failures' = IF outcome = "ok" THEN failures ELSE failures \cup {pc}
           /\ IF next # "Done"
              THEN /\ rawPresent
                   /\ pc' = next
                   /\ UNCHANGED result
              ELSE IF sql_str = None
              THEN /\ pc' = "Failed"
                   /\ result' = Failure("crew.kickoff() raw missing",
                                        natural_language_query)
              ELSE /\ pc' = "Done"
                   /\ result' =
                        [ success |-> TRUE,
                          sql_query |-> _extract_sql_from_result(sql_str),
                          natural_language_query |-> natural_language_query,
                          relevant_tables |-> relevant_tables,
                          crew_result |-> sql_str,
                          schema_context |-> schema_context ]
    /\ UNCHANGED <<engine, storeUp, store, natural_language_query,
                   relevant_tables, schema, schema_context, managerVars>>
    /\ UNCHANGED <<extractVars, query, selected, all_tables>>
    /\ UNCHANGED <<schemaVars, execVars, exampleVars>>
    /\ UNCHANGED appVars

\* crew.kickoff() raises: the except branch of generate_sql
KickoffRaises ==
    /\ pc \in Stages
    /\ pc' = "Failed"
    /\ result' = Failure("CrewError", natural_language_query)
    /\ UNCHANGED <<engine, storeUp, store, natural_language_query,
                   relevant_tables, schema, schema_context, trace, calls,
                   failures, outputs, call_errors, managerVars>>
    /\ UNCHANGED <<extractVars, query, selected, all_tables>>
    /\ UNCHANGED <<schemaVars, execVars, exampleVars>>
    /\ UNCHANGED appVars

\* generate_sql has returned: its locals are gone, the caller holds the result
Return ==
    /\ pc \in {"Done", "Failed"}
    /\ pc' = "Idle"
    /\ natural_language_query' = << >>
    /\ relevant_tables' = << >>
    /\ schema' = NoSchema
    /\ schema_context' = << >>
    /\ trace' = << >>
    /\ calls' = 0
    /\ failures' = {}
    /\ outputs' = << >>
    /\ call_errors' = << >>
    /\ result' = NoResult
    /\ all_tables' = << >>
    /\ UNCHANGED <<engine, storeUp, store, managerVars>>
    /\ UNCHANGED <<extractVars, query, selected>>
    /\ UNCHANGED <<schemaVars, execVars, exampleVars>>
    /\ UNCHANGED appVars

Next ==
    \/ Connect
    \/ StoreToggle
    \/ \E t \in PipelineTables : CreateTable(t)
    \/ \E i \in 1..2 : DropTable(i)
    \/ \E q \in PipelineQueries : GenerateSql(q)
    \/ CreateSchemaContext
    \/ \E o \in CallOutcomes, c \in Completions, r \in BOOLEAN : RunStage(o, c, r)
    \/ KickoffRaises
    \/ Return

Spec == Init /\ [][Next]_vars

----------------------------------------------------------------------------
(* SpecExamples: _create_examples_context applied to one example store *)

ExamplesLimit == 5

NoExamples == << [kind |-> "No example queries available."] >>

\* The four lines appended for the i-th example
ExampleLines(i, query_info) ==
    << [kind |-> "Example", number |-> i],
       [kind |-> "Natural Language:", text |-> query_info.natural_language],
       [kind |-> "SQL:", text |-> query_info.sql],
       [kind |-> ""] >>

RECURSIVE Examples(_, _)
Examples(samples, i) ==
    IF samples = << >> THEN << >>
    ELSE ExampleLines(i, Head(samples)) \o Examples(Tail(samples), i + 1)

\* The mutation of _create_examples_context: every stored pair is rendered.
_create_examples_context_all(samples) ==
    IF samples = << >> THEN NoExamples ELSE Examples(samples, 1)

\* enumerate(self.sample_queries[:5], 1)
_create_examples_context(samples) ==
    IF samples = << >> THEN NoExamples
    ELSE Examples(SubSeq(samples, 1, Min({ExamplesLimit, Len(samples)})), 1)

ExamplePool ==
    { [natural_language |-> "q1", sql |-> "s1"],
      [natural_language |-> "q2", sql |-> "s2"] }

InitExamples ==
    /\ PipelineIdle
    /\ ExtractIdle
    /\ SelectIdle
    /\ SchemaIdle
    /\ ExecIdle
    /\ AppIdle
    /\ sample_queries \in SeqsUpTo(ExamplePool, MaxExamples)
    /\ examples_context = NotRendered

CreateExamplesContext ==
    /\ examples_context = NotRendered
    /\ examples_context' = _create_examples_context(sample_queries)
    /\ UNCHANGED sample_queries
    /\ UNCHANGED pipelineVars
    /\ UNCHANGED <<extractVars, selectVars, schemaVars, execVars>>
    /\ UNCHANGED appVars

NextExamples == CreateExamplesContext

SpecExamples == InitExamples /\ [][NextExamples]_vars

----------------------------------------------------------------------------
(* SpecDb: the DatabaseManager called directly, as test_agent.py does *)

\* DatabaseManager.close: the engine's pool is disposed; self.engine stays
\* set, and a disposed engine opens new connections on its next use.
Close ==
    /\ pc = "Idle"
    /\ connection' = IF engine = "None" THEN connection ELSE "closed"
    /\ UNCHANGED <<engine, storeUp, store, pc, natural_language_query,
                   relevant_tables, schema, schema_context, trace, calls,
                   failures, outputs, result, call_errors, connect_return>>
    /\ UNCHANGED <<extractVars, query, selected, all_tables>>
    /\ UNCHANGED <<schemaVars, execVars, exampleVars>>
    /\ UNCHANGED appVars

\* schema = agent.db_manager.get_database_schema(): the log keeps the last two
\* calls, each with the state it was made in and what it returned or raised.
GetDatabaseSchema ==
    /\ pc = "Idle"
    /\ LET call == [ connection |-> connection, store |-> store,
                     returned |-> get_database_schema(engine, storeUp, store) ]
       IN  schema_log' = IF Len(schema_log) < 2 THEN Append(schema_log, call)
                         ELSE << schema_log[2], call >>
    /\ UNCHANGED pipelineVars
    /\ UNCHANGED <<extractVars, selectVars, execVars, exampleVars>>
    /\ UNCHANGED appVars

NextDb ==
    \/ Connect
    \/ Close
    \/ StoreToggle
    \/ \E t \in PipelineTables : CreateTable(t)
    \/ \E i \in 1..2 : DropTable(i)
    \/ GetDatabaseSchema

SpecDb == Init /\ [][NextDb]_vars

----------------------------------------------------------------------------
(* SpecExec: execute_sql on a manager that is connected, closed or neither *)

\* Statements handed to execute_sql: reading and writing ones, and the None
\* that generate_sql returns when no statement was extracted
ExecStatements ==
    { << "SELECT", " ", "x", ";" >>, << "delete", " ", "x", ";" >>, None }

RowPool == { "r1", "r2" }

\* What pd.read_sql_query gets from the store: a frame of rows, or an error
\* (the statement is malformed, returns no rows, or the store is unreachable)
RowAnswers ==
    { [rows |-> r, columns |-> << "c" >>] : r \in SeqsUpTo(RowPool, MaxRows) }

Rejections == { [rejected |-> "ProgrammingError"], [rejected |-> "StoreError"] }

\* DatabaseManager.execute_query: the not-connected error without an engine,
\* else the frame, or the store's error raised again
execute_query(statement, eng, answer) ==
    IF eng = "None" THEN [raised |-> NotConnected]
    ELSE IF "rejected" \in DOMAIN answer THEN [raised |-> answer.rejected]
    ELSE [df |-> answer]

\* The mutation of execute_sql: statements other than SELECT are refused.
execute_sql_select_only(statement, eng, answer) ==
    LET r == execute_query(statement, eng, answer)
    IN  IF statement[1] # "SELECT"
        THEN [success |-> FALSE, error |-> "Only SELECT"]
        ELSE IF "raised" \in DOMAIN r
        THEN [success |-> FALSE, error |-> r.raised]
        ELSE [ success |-> TRUE, data |-> r.df.rows,
               columns |-> r.df.columns, row_count |-> Len(r.df.rows) ]

\* SQLAgent.execute_sql: every exception becomes success=false with str(e)
execute_sql(statement, eng, answer) ==
    LET r == execute_query(statement, eng, answer)
    IN  IF "raised" \in DOMAIN r
        THEN [success |-> FALSE, error |-> r.raised]
        ELSE [ success |-> TRUE, data |-> r.df.rows,
               columns |-> r.df.columns, row_count |-> Len(r.df.rows) ]

\* One call of execute_sql; sent holds what the store received and answered,
\* and is empty when the call never reached the store.
ExecuteSql(statement, answer) ==
    /\ pc = "Idle"
    /\ ~storeUp => answer = [rejected |-> "StoreError"]
    /\ statement = None => "rejected" \in DOMAIN answer
    /\ sql_query' = statement
    /\ sent' = IF engine = "None" THEN << >>
               ELSE << [statement |-> statement, answer |-> answer] >>
    /\ exec_result' = execute_sql(statement, engine, answer)
    /\ UNCHANGED pipelineVars
    /\ UNCHANGED <<extractVars, selectVars, schemaVars, exampleVars>>
    /\ UNCHANGED appVars

NextExec ==
    \/ Connect
    \/ Close
    \/ StoreToggle
    \/ \E s \in ExecStatements, a \in RowAnswers \cup Rejections : ExecuteSql(s, a)

SpecExec == Init /\ [][NextExec]_vars

----------------------------------------------------------------------------
(* SpecApp: the dashboard, one action per button press or widget change *)

HasAgent == sql_agent # NoAgent

\* The mutation of MayGenerate: the database flag is not looked at.
MayGenerateUnconnected(q, db, ol) == Strip(q) # << >> /\ ol

\* The if/elif chain under the generate button
MayGenerate(q, db, ol) == Strip(q) # << >> /\ db /\ ol

\* What generate_sql can return: success with a statement or with None, or
\* success=false; it catches every exception itself
GenerationResults(q) ==
    { [success |-> TRUE, sql_query |-> s, natural_language_query |-> q] :
        s \in { None, << "SELECT", " ", "x", ";" >> } }
    \cup { Failure("CrewError", q) }

\* The mutation of HistoryAfter: a failed generation is recorded as well.
HistoryAfterAlways(history, q, returned) ==
    Append(history, << q, IF returned.success THEN returned.sql_query ELSE None >>)

\* query_history.append((natural_language_query, result["sql_query"]))
HistoryAfter(history, q, returned) ==
    IF returned.success THEN Append(history, << q, returned.sql_query >>)
    ELSE history

\* "if st.session_state.sql_agent is None: st.session_state.sql_agent =
\* SQLAgent()" of both sidebar buttons; built says whether the constructor
\* finds a readable configuration.
AgentBuilt(built, cfg) ==
    /\ HasAgent \/ built
    /\ sql_agent' = IF HasAgent THEN sql_agent ELSE SQLAgent(cfg)
    /\ heap' = IF HasAgent THEN heap ELSE HeapOf(cfg)

\* The "Connect to Database" button
PressConnect(built, cfg) ==
    /\ IF ~HasAgent /\ ~built
       THEN UNCHANGED <<sql_agent, heap, db_connected, engine, connection,
                        connect_return>>
       ELSE /\ AgentBuilt(built, cfg)
            /\ engine' = "Engine"
            /\ connection' = IF storeUp THEN "live" ELSE "failed"
            /\ connect_return' = [value |-> storeUp]
            /\ db_connected' = (db_connected \/ storeUp)
    /\ UNCHANGED <<ollamaUp, ollama_connected, temperature, max_tokens,
                   natural_query, query_history, generated_sql, query_result,
                   last_call, generations, successes>>
    /\ UNCHANGED <<storeUp, store, pc, natural_language_query, relevant_tables,
                   schema, schema_context, trace, calls, failures, outputs,
                   result, call_errors>>
    /\ UNCHANGED <<extractVars, selectVars, schemaVars, execVars, exampleVars>>

\* The "Test Ollama Connection" button
PressTestOllama(built, cfg) ==
    /\ IF ~HasAgent /\ ~built
       THEN UNCHANGED <<sql_agent, heap, ollama_connected>>
       ELSE /\ AgentBuilt(built, cfg)
            /\ ollama_connected' = (ollama_connected \/ ollamaUp)
    /\ UNCHANGED <<ollamaUp, db_connected, temperature, max_tokens,
                   natural_query, query_history, generated_sql, query_result,
                   last_call, generations, successes>>
    /\ UNCHANGED pipelineVars
    /\ UNCHANGED <<extractVars, selectVars, schemaVars, execVars, exampleVars>>

\* The select boxes and the text area
SelectTemperature(t) ==
    /\ temperature' = t
    /\ UNCHANGED <<ollamaUp, heap, sql_agent, db_connected, ollama_connected,
                   max_tokens, natural_query, query_history, generated_sql,
                   query_result, last_call, generations, successes>>
    /\ UNCHANGED pipelineVars
    /\ UNCHANGED <<extractVars, selectVars, schemaVars, execVars, exampleVars>>

SelectMaxTokens(m) ==
    /\ max_tokens' = m
    /\ UNCHANGED <<ollamaUp, heap, sql_agent, db_connected, ollama_connected,
                   temperature, natural_query, query_history, generated_sql,
                   query_result, last_call, generations, successes>>
    /\ UNCHANGED pipelineVars
    /\ UNCHANGED <<extractVars, selectVars, schemaVars, execVars, exampleVars>>

TypeQuery(q) ==
    /\ natural_query' = q
    /\ UNCHANGED <<ollamaUp, heap, sql_agent, db_connected, ollama_connected,
                   temperature, max_tokens, query_history, generated_sql,
                   query_result, last_call, generations, successes>>
    /\ UNCHANGED pipelineVars
    /\ UNCHANGED <<extractVars, selectVars, schemaVars, execVars, exampleVars>>

\* The model service becomes unreachable, or reachable again
OllamaToggle ==
    /\ ollamaUp' = ~ollamaUp
    /\ UNCHANGED <<heap, sessionVars, last_call, generations, successes>>
    /\ UNCHANGED pipelineVars
    /\ UNCHANGED <<extractVars, selectVars, schemaVars, execVars, exampleVars>>

\* The "Generate SQL" button.  Behind the three checks the selected values
\* are assigned to sql_agent.ollama_manager.llm, generate_sql is invoked, and
\* the session state is written only for a result with success=true.  Without
\* an agent the call raises and the except branch leaves everything as it was.
PressGenerate(returned) ==
    /\ IF ~MayGenerate(natural_query, db_connected, ollama_connected)
          \/ ~HasAgent
       THEN UNCHANGED <<heap, query_history, generated_sql, query_result,
                        last_call, generations, successes>>
       ELSE /\ generations < MaxGenerations
            /\ returned \in GenerationResults(natural_query)
            /\ heap' = [ heap EXCEPT ![sql_agent.ollama_manager_llm] =
                            [ @ EXCEPT !.temperature = temperature,
                                       !.max_tokens = max_tokens ] ]
            /\ last_call' =
                  [ query |-> natural_query,
                    db_connected |-> db_connected,
                    ollama_connected |-> ollama_connected,
                    selected |-> [temperature |-> temperature,
                                  max_tokens |-> max_tokens],
                    llm |-> heap'[sql_agent.agents_llm],
                    returned |-> returned ]
            /\ generations' = generations + 1
            /\ successes' = IF returned.success THEN successes + 1 ELSE successes
            /\ generated_sql' = IF returned.success THEN returned.sql_query
                                ELSE generated_sql
            /\ query_result' = IF returned.success THEN returned ELSE query_result
            /\ query_history' = HistoryAfter(query_history, natural_query, returned)
    /\ UNCHANGED <<ollamaUp, sql_agent, db_connected, ollama_connected,
                   temperature, max_tokens, natural_query>>
    /\ UNCHANGED pipelineVars
    /\ UNCHANGED <<extractVars, selectVars, schemaVars, execVars, exampleVars>>

\* The execute button and the download widgets write none of these variables.
NextApp ==
    \/ \E b \in BOOLEAN, cfg \in Configs : PressConnect(b, cfg)
    \/ \E b \in BOOLEAN, cfg \in Configs : PressTestOllama(b, cfg)
    \/ \E t \in TemperatureOptions : SelectTemperature(t)
    \/ \E m \in MaxTokensOptions : SelectMaxTokens(m)
    \/ \E q \in QueryTexts : TypeQuery(q)
    \/ \E r \in UNION { GenerationResults(q) : q \in QueryTexts } : PressGenerate(r)
    \/ StoreToggle
    \/ OllamaToggle

SpecApp == Init /\ [][NextApp]_vars

----------------------------------------------------------------------------
(* Claims about _extract_sql_from_result, checked under SpecExtract *)

Extracted == extracted # Unset

Fenced == "stmt" \in DOMAIN parts

\* The text the fallback search scans, and where a statement can start in it:
\* a keyword in any letter case, a blank after it, a semicolon further on.
Scanned == Flatten(text)

CandidatesOf(s) ==
    { i \in DOMAIN s :
        /\ IsKeyword(s[i])
        /\ i + 1 \in DOMAIN s
        /\ s[i + 1] = " "
        /\ \E j \in (i + 2)..Len(s) : s[j] = ";" }

CandidateStarts == CandidatesOf(Scanned)

SemicolonsAfter(i) == { j \in DOMAIN Scanned : j > i /\ Scanned[j] = ";" }

\* C4: for keyword-free prose, one fenced block holding a single statement,
\* and more keyword-free prose, the value returned is exactly that statement.
C4_FencedStatementExact ==
    (Extracted /\ Fenced /\ parts.pre \in PlainProse)
        => extracted = parts.stmt

\* C5: when the fenced block holds a statement-shaped region, the value
\* returned is taken from inside the block, also when statement-shaped text
\* stands earlier in the prose (newlines may have become blanks).
C5_FencedFirst ==
    (Extracted /\ Fenced /\ Search(parts.stmt, TRUE) # None)
        => \E i, j \in DOMAIN parts.stmt :
               extracted = Flatten(SubSeq(parts.stmt, i, j))

C7_NoKeywordNoSemicolon ==
    (Extracted /\ \A i \in DOMAIN text : ~IsKeyword(text[i]) /\ text[i] # ";")
        => extracted = None

C7_Witness ==
    /\ Extracted
    /\ Len(text) >= 2
    /\ \A i \in DOMAIN text : ~IsKeyword(text[i]) /\ text[i] # ";"
    /\ \E i \in DOMAIN text : text[i] = "x"
    /\ extracted = None

----------------------------------------------------------------------------
(* Claims about get_relevant_tables, checked under SpecSelect *)

Selected == selected # Unset

\* The table name stands in the query text, letter case ignored
Occurs(t, q) ==
    \E off \in 0..(Len(q) - Len(t)) :
        \A k \in 1..Len(t) : Lower(q[off + k]) = Lower(t[k])

Occurring == { i \in DOMAIN all_tables : Occurs(all_tables[i], query) }

PositionIn(l, t) == Min({ i \in DOMAIN l : l[i] = t })

\* C8: when some table name occurs in the query, the result holds exactly the
\* tables whose names occur, each once, in enumeration order.
C8_ExactlyTheMatches ==
    (Selected /\ Occurring # {})
        => /\ { selected[i] : i \in DOMAIN selected }
                = { all_tables[i] : i \in Occurring }
           /\ \A i, j \in DOMAIN selected :
                i < j => PositionIn(all_tables, selected[i])
                             < PositionIn(all_tables, selected[j])

C8_Witness ==
    /\ Selected
    /\ Cardinality(Occurring) >= 2
    /\ 1 \notin Occurring
    /\ \E i \in Occurring : ~Contains(query, all_tables[i])
    /\ Len(selected) < Len(all_tables)

\* C9: when no table name occurs in the query, the result is the first
\* min(5, n) tables; the result is empty only if the store has no table.
C9_FallbackFirstFive ==
    Selected
        => /\ Occurring = {}
                => selected = SubSeq(all_tables, 1,
                                     IF Len(all_tables) < 5 THEN Len(all_tables) ELSE 5)
           /\ selected = << >> => all_tables = << >>

C9_Witness ==
    /\ Selected
    /\ Occurring = {}
    /\ Len(all_tables) > 5
    /\ Len(selected) = 5

----------------------------------------------------------------------------
(* Claims about generate_sql, checked under Spec *)

Returned == "success" \in DOMAIN result

StageOrder == << "Analysis", "SchemaInsight", "Generation" >>

C2_FailedCallAborts ==
    failures # {}
        => /\ pc = "Failed"
           /\ Returned
           /\ result.success = FALSE
           /\ "sql_query" \notin DOMAIN result
           /\ trace[Len(trace)] \in failures
           /\ Cardinality(failures) = 1

RawMissing ==
    /\ Returned
    /\ "error" \in DOMAIN result
    /\ result.error = "crew.kickoff() raw missing"

\* C3: when all three stages have completed and the terminal text holds no
\* statement, the result is success=true with sql_query null and no error;
\* every failure result is success=false with an error and no sql_query.
C3_ExtractionFailureIsSuccess ==
    /\ (Returned /\ Len(trace) = 3 /\ ~RawMissing
          /\ CandidatesOf(Flatten(outputs[3])) = {})
         => /\ result.success = TRUE
            /\ result.sql_query = None
            /\ "error" \notin DOMAIN result
    /\ (Returned /\ pc = "Failed")
         => /\ result.success = FALSE
            /\ "error" \in DOMAIN result
            /\ "sql_query" \notin DOMAIN result

C3_Witness ==
    /\ pc = "Done"
    /\ failures = {}
    /\ Len(outputs[3]) > 0
    /\ result.sql_query = None

HasBlock(context, t) ==
    \E k \in DOMAIN context : context[k] = [kind |-> "Table:", name |-> t]

\* C10: in a result with success=true every table of relevant_tables has a
\* block starting with "Table: <name>" in schema_context, so the context is
\* not empty when relevant_tables is not.
C10_EveryRelevantTableHasBlock ==
    (Returned /\ result.success)
        => /\ \A i \in DOMAIN result.relevant_tables :
                HasBlock(result.schema_context, result.relevant_tables[i])
           /\ result.relevant_tables # << >> => result.schema_context # << >>

\* The names of the "Table:" lines of a context, in order
Headers(context) ==
    LET lines == SelectSeq(context, LAMBDA l : l.kind = "Table:")
    IN  [ k \in DOMAIN lines |-> lines[k].name ]

\* C10 as amended: the context of a result with success=true is the error
\* marker when the second read of the store failed; otherwise its blocks are,
\* in order, those of the relevant tables the second read still lists, so
\* every relevant table has a block when both reads list the same tables.
C10_BlocksForTablesStillListed ==
    (Returned /\ result.success)
        => IF "raised" \in DOMAIN schema
           THEN /\ Len(result.schema_context) = 1
                /\ Headers(result.schema_context) = << >>
           ELSE /\ Headers(result.schema_context)
                     = SelectSeq(result.relevant_tables,
                                 LAMBDA t : t \in DOMAIN schema.tables)
                /\ DOMAIN schema.tables = { all_tables[i] : i \in DOMAIN all_tables }
                     => \A i \in DOMAIN result.relevant_tables :
                            HasBlock(result.schema_context,
                                     result.relevant_tables[i])

C10_Witness ==
    /\ Returned
    /\ result.success
    /\ "tables" \in DOMAIN schema
    /\ \E i \in DOMAIN result.relevant_tables :
          HasBlock(result.schema_context, result.relevant_tables[i])
    /\ \E i \in DOMAIN result.relevant_tables :
          ~HasBlock(result.schema_context, result.relevant_tables[i])

----------------------------------------------------------------------------
(* Claims about failures of the schema read, checked under Spec *)

\* The errors a read of the store's catalogue can raise
SchemaReadErrors == {NotConnected, "StoreError"}

\* C11: a failure to read the schema during generate_sql, the store not being
\* connected included, becomes the error marker in the schema context and the
\* three stages go on; it never ends the request with success=false.
C11_SchemaFailureDegrades ==
    /\ (Returned /\ result.success = FALSE)
          => result.error \notin SchemaReadErrors
    /\ "raised" \in DOMAIN schema
          => /\ schema_context = ErrorMarker(schema.raised)
             /\ pc \in Stages \cup {"Done", "Failed"}

----------------------------------------------------------------------------
(* Claims about get_database_schema, checked under SpecDb *)

\* C12: get_database_schema raises the not-connected error whenever no live
\* connection exists: before connect(), after a connect() that returned
\* false, and after close().
C12_NotConnectedWithoutLiveConnection ==
    \A k \in DOMAIN schema_log :
        schema_log[k].connection \in {"never", "failed", "closed"}
            => schema_log[k].returned = [raised |-> NotConnected]

SchemaReturned(k) == "tables" \in DOMAIN schema_log[k].returned

\* C13: for a store with N tables get_database_schema returns exactly N table
\* entries and total_tables = N; every entry's primary_keys is a list, never
\* None, and is empty exactly when the store reports no primary key.
C13_OneEntryPerTable ==
    \A k \in DOMAIN schema_log :
        SchemaReturned(k) =>
            LET got == schema_log[k].returned
                listed == schema_log[k].store
            IN  /\ DOMAIN got.tables = { listed[i] : i \in DOMAIN listed }
                /\ Cardinality(DOMAIN got.tables) = Len(listed)
                /\ got.total_tables = Len(listed)
                /\ \A t \in DOMAIN got.tables :
                      /\ got.tables[t].primary_keys # None
                      /\ got.tables[t].primary_keys = << >>
                            <=> Inspector(t).pk_constraint.constrained_columns = << >>
                      /\ got.tables[t].primary_keys
                            = Inspector(t).pk_constraint.constrained_columns

C13_Witness ==
    \E k \in DOMAIN schema_log :
        /\ SchemaReturned(k)
        /\ schema_log[k].returned.total_tables = 2
        /\ schema_log[k].returned.tables[Users].primary_keys # << >>
        /\ schema_log[k].returned.tables[Orders].primary_keys = << >>

\* What a call of get_database_schema must leave as it was
ManagerAndStore == <<engine, connection, connect_return, storeUp, store>>

\* C14: a call of get_database_schema changes neither the manager nor the
\* store and nothing is cached: a call that returns lists exactly the tables
\* the store holds at that call, so it equals the previous call's result when
\* the store's tables are the same and shows the new table set when they
\* have changed.
C14_NoCacheNoSideEffect ==
    [][ schema_log' # schema_log =>
          LET call == schema_log'[Len(schema_log')]
              before == schema_log[Len(schema_log)]
          IN  /\ ManagerAndStore' = ManagerAndStore
              /\ call.store = store
              /\ "tables" \in DOMAIN call.returned =>
                    /\ DOMAIN call.returned.tables
                          = { store[i] : i \in DOMAIN store }
                    /\ (/\ schema_log # << >>
                        /\ "tables" \in DOMAIN before.returned
                        /\ before.store = store)
                          => call.returned = before.returned ]_vars

C14_Witness ==
    /\ Len(schema_log) = 2
    /\ SchemaReturned(1)
    /\ SchemaReturned(2)
    /\ schema_log[1].store # schema_log[2].store
    /\ DOMAIN schema_log[1].returned.tables
          # DOMAIN schema_log[2].returned.tables

----------------------------------------------------------------------------
(* Claims about the schema context, checked under Spec *)

\* The context was serialized from a schema that was read
Serialized == "tables" \in DOMAIN schema

HasLine(lines, kind) == \E j \in DOMAIN lines : lines[j].kind = kind

\* The block that starts at header line k is well formed: it runs to the next
\* blank line; its column lines are, in order, "name: type" of the table's
\* columns, each followed by nullWord or NOT NULL and by " DEFAULT <expr>"
\* exactly when the column has a default; it has a Primary Keys line exactly
\* when the table's primary key list is not empty, and a Foreign Keys line
\* exactly when its foreign key list is not empty.
BlockShape(k, nullWord) ==
    LET info == schema.tables[schema_context[k].name]
    IN  \E e \in (k + 1)..Len(schema_context) :
           /\ schema_context[e].kind = ""
           /\ \A j \in (k + 1)..(e - 1) :
                 schema_context[j].kind \notin {"", "Table:"}
           /\ LET body == SubSeq(schema_context, k + 1, e - 1)
                  cols == SelectSeq(body, LAMBDA l : l.kind = "Column")
              IN  /\ Len(cols) = Len(info.columns)
                  /\ \A i \in DOMAIN cols :
                        /\ cols[i].name = info.columns[i].name
                        /\ cols[i].type = info.columns[i].type
                        /\ cols[i].nullable
                              = IF info.columns[i].nullable
                                THEN nullWord ELSE "NOT NULL"
                        /\ cols[i].default # << >>
                              <=> info.columns[i].default # << >>
                        /\ cols[i].default # << >>
                              => cols[i].default
                                    = << " DEFAULT " >> \o info.columns[i].default
                  /\ HasLine(body, "Primary Keys:")
                        <=> info.primary_keys # << >>
                  /\ HasLine(body, "Foreign Keys:")
                        <=> info.foreign_keys # << >>

ContextShape(nullWord) ==
    (Serialized /\ pc \in Stages) =>
        /\ \A k \in DOMAIN schema_context :
              schema_context[k].kind = "Table:" => BlockShape(k, nullWord)
        /\ schema_context # << >>
              => schema_context[Len(schema_context)].kind = ""

\* C16: every column line reads "name: type" followed by NULLABLE or
\* NOT NULL, and by " DEFAULT <expr>" exactly when the column has a default;
\* a block has a Primary Keys line exactly when the primary key list is not
\* empty and a Foreign Keys line exactly when the foreign key list is not
\* empty, and ends with a blank line.
C16_BlockLinesNullable == ContextShape("NULLABLE")

\* C16 as amended: the same, with the word NULL written for a nullable column.
C16_BlockLinesNull == ContextShape("NULL")

C16_Witness ==
    /\ Serialized
    /\ pc \in Stages
    /\ HasBlock(schema_context, Users)
    /\ HasBlock(schema_context, Orders)
    /\ HasLine(schema_context, "Primary Keys:")
    /\ HasLine(schema_context, "Foreign Keys:")

----------------------------------------------------------------------------
(* Claims about _create_examples_context, checked under SpecExamples *)

Rendered == examples_context # NotRendered

\* C17: of n stored example pairs exactly the first min(5, n) are rendered,
\* numbered from 1 in stored order; the fixed sentinel text is returned
\* exactly when the example store is empty.
C17_FirstFiveExamples ==
    Rendered =>
        LET n == Len(sample_queries)
            m == IF n < 5 THEN n ELSE 5
        IN  /\ examples_context = NoExamples <=> n = 0
            /\ n > 0 =>
                  /\ Len(examples_context) = 4 * m
                  /\ \A i \in 1..m :
                        /\ examples_context[4 * i - 3]
                              = [kind |-> "Example", number |-> i]
                        /\ examples_context[4 * i - 2].text
                              = sample_queries[i].natural_language
                        /\ examples_context[4 * i - 1].text
                              = sample_queries[i].sql
                        /\ examples_context[4 * i].kind = ""

C17_Witness ==
    /\ Rendered
    /\ Len(sample_queries) > 5
    /\ sample_queries[1] # sample_queries[2]

----------------------------------------------------------------------------
(* Claims about error reporting, checked under Spec *)

\* The i-th model call of the request failed
CallFailed(i) == trace[i] \in failures

\* The errors that end generate_sql in its except branch
RequestErrors ==
    SchemaReadErrors \cup {"CrewError", "crew.kickoff() raw missing"}

\* C18: every failure the caller sees carries the underlying error message
\* verbatim: a failed connect() returns it, the text returned for a failed
\* model call contains it, and a failed generate_sql has it as its error.
C18_FailuresCarryMessage ==
    /\ connection = "failed" => "error" \in DOMAIN connect_return
    /\ \A i \in DOMAIN outputs :
          call_errors[i] # ""
              => \E j \in DOMAIN outputs[i] : outputs[i][j] = call_errors[i]
    /\ (Returned /\ result.success = FALSE) => result.error \in RequestErrors

\* C19: a model call that failed is reported as an error that cannot be
\* taken for a completion: what it hands back is neither the empty text nor a
\* text the model may have written.
C19_FailedCallDistinguishable ==
    \A i \in DOMAIN outputs :
        CallFailed(i) => /\ outputs[i] # << >>
                         /\ outputs[i] \notin Completions

----------------------------------------------------------------------------
(* Claims about execute_sql, checked under SpecExec *)

Executed == "success" \in DOMAIN exec_result

\* C20: execute_sql hands any statement to the store whatever its type and
\* never raises.  When the store returns rows the result is success=true with
\* the rows as data, the columns, and row_count equal to the number of rows;
\* when the manager has no engine or the store rejects the statement the
\* result is success=false with the error text and no data.
C20_ExecutePassesThrough ==
    [][ <<sql_query, sent, exec_result>>' # <<sql_query, sent, exec_result>> =>
          /\ Executed'
          /\ engine # "None" => /\ sent' # << >>
                                /\ sent'[1].statement = sql_query'
          /\ IF sent' # << >> /\ "rows" \in DOMAIN sent'[1].answer
             THEN /\ exec_result'.success = TRUE
                  /\ exec_result'.data = sent'[1].answer.rows
                  /\ exec_result'.columns = sent'[1].answer.columns
                  /\ exec_result'.row_count = Len(exec_result'.data)
                  /\ "error" \notin DOMAIN exec_result'
             ELSE /\ exec_result'.success = FALSE
                  /\ "data" \notin DOMAIN exec_result'
                  /\ exec_result'.error
                        = IF sent' = << >> THEN NotConnected
                          ELSE sent'[1].answer.rejected ]_vars

C20_Witness ==
    /\ Executed
    /\ exec_result.success
    /\ exec_result.row_count = 2
    /\ sql_query[1] = "delete"

----------------------------------------------------------------------------
(* Claims about where a statement is recognised, checked under SpecExtract *)

Found == Extracted /\ extracted # None

\* The spans of the text that begin with a keyword standing at the start of
\* a line (which makes it a whole word on its left) and read as the value
\* returned
LineStartSpans ==
    { <<i, j>> \in (DOMAIN text) \X (DOMAIN text) :
        /\ i <= j
        /\ IsKeyword(text[i])
        /\ LineStart(text, i)
        /\ extracted = SubSeq(Scanned, i, j) }

\* C21: a statement is recognised only where its keyword stands at the start
\* of a line as a whole word: a returned span never starts in the middle of a
\* line of prose or of a longer word.
C21_OnlyAtLineStart == Found => LineStartSpans # {}

\* C22: every value returned other than None starts with SELECT, INSERT,
\* UPDATE or DELETE in any letter case, ends with its only semicolon, and has
\* no blank at either end.
C22_StatementShaped ==
    Found =>
        /\ extracted # << >>
        /\ IsKeyword(extracted[1])
        /\ extracted[Len(extracted)] = ";"
        /\ Cardinality({ j \in DOMAIN extracted : extracted[j] = ";" }) = 1
        /\ ~IsSpace(extracted[1])
        /\ ~IsSpace(extracted[Len(extracted)])

C22_Witness ==
    /\ Found
    /\ ~IsKeyword(text[1])
    /\ Cardinality({ j \in DOMAIN text : text[j] = ";" }) >= 2
    /\ Len(extracted) < Len(text) - 1

----------------------------------------------------------------------------
(* Claims about the dashboard, checked under SpecApp *)

Invoked == "query" \in DOMAIN last_call

\* C23: generate_sql is invoked only with a non-blank query text and with
\* db_connected and ollama_connected both true; in every state, db_connected
\* or ollama_connected being true implies that sql_agent is not None.
C23_GenerateGuarded ==
    /\ Invoked => /\ Strip(last_call.query) # << >>
                  /\ last_call.db_connected
                  /\ last_call.ollama_connected
    /\ generations > 0 => Invoked
    /\ (db_connected \/ ollama_connected) => sql_agent # NoAgent

C23_Witness ==
    /\ Invoked
    /\ generations = 2
    /\ ~storeUp
    /\ natural_query = << " " >>

Generation == <<generated_sql, query_result, query_history>>

\* C24: a generation that returns success=false, or a press that raises or
\* is refused, leaves generated_sql, query_result and query_history as they
\* were; one that returns success=true sets generated_sql to the result's
\* sql_query and appends the one pair (query text, sql_query) to
\* query_history, whose length is always the number of successful generations.
C24_HistoryCountsSuccesses ==
    [][ /\ Len(query_history') = successes'
        /\ generations' = generations => Generation' = Generation
        /\ generations' # generations =>
              LET returned == last_call'.returned
              IN  IF returned.success
                  THEN /\ generated_sql' = returned.sql_query
                       /\ query_history'
                             = Append(query_history,
                                      << last_call'.query, returned.sql_query >>)
                       /\ successes' = successes + 1
                  ELSE /\ Generation' = Generation
                       /\ successes' = successes ]_vars

C24_Witness ==
    /\ generations = 2
    /\ successes = 1
    /\ Len(query_history) = 1
    /\ generated_sql = None

\* C25: the temperature and max-token values selected before a generation
\* are the parameters of the model object the stage agents use for it: the
\* object the dashboard updates and the object the agents hold are the same,
\* and it has the base URL and model identifier of the configuration file.
C25_AgentsUseSelectedParameters ==
    /\ HasAgent => sql_agent.agents_llm = sql_agent.ollama_manager_llm
    /\ Invoked =>
          /\ last_call.llm.temperature = last_call.selected.temperature
          /\ last_call.llm.max_tokens = last_call.selected.max_tokens
          /\ last_call.llm.base_url = sql_agent.config.base_url
          /\ last_call.llm.model = sql_agent.config.model

====
